---- MODULE Spec2Model ----
(***************************************************************************)
(* Pastebin-Lite: the paste store, the lifecycle evaluator of models.py    *)
(* and the three request handlers of main.py (create, API fetch, page      *)
(* view), with the deterministic-clock hook of utils.py.                   *)
(*                                                                         *)
(* Time is counted in milliseconds since the epoch.  A Python Optional is  *)
(* a sequence of length at most one: <<>> is None, <<x>> is the value x.   *)
(***************************************************************************)
EXTENDS Integers, Sequences, FiniteSets, TLC

(* ------------------------------ bounds --------------------------------- *)

\* The largest max_views a creation request asks for; a paste without
\* max_views is fetched until its counter reaches it.
MaxViews == 2

(* ------------------------------ values --------------------------------- *)

None == <<>>
Some(x) == <<x>>

MsPerSecond == 1000

\* One paste id is followed: a handler reads and writes the row of the id
\* it was asked for and no other (filter(Paste.id == paste_id)).
Ids == {1}

\* Two workers serve requests at the same time.
Procs == {1, 2}

\* The instants requests and the wall clock are drawn from: the epoch and
\* one second later, the expiry instant of a paste created at the epoch
\* with ttl_seconds = 1.
Times == {0, MsPerSecond}

\* Request bodies of POST /api/pastes.  A content is a sequence of
\* characters; " " stands for any whitespace character.
Contents == {<<>>, <<" ">>, <<" ", "a">>}
TtlInputs == {None, Some(0), Some(1)}
ViewInputs == {None} \cup {Some(n) : n \in 0 .. MaxViews}

\* The x-test-now-ms header of a request: absent, an integer of
\* milliseconds, a text that raises ValueError (not an integer, or a year
\* out of range), or an integer beyond time_t (OverflowError).
Headers ==
    {[kind |-> k, ms |-> 0] : k \in {"absent", "text", "overflow"}}
        \cup {[kind |-> "ms", ms |-> t] : t \in Times}

NoHeader == [kind |-> "absent", ms |-> 0]

\* Whether the store is unreachable when the request queries or commits:
\* "before" is a failure before the commit takes effect.
FailPoints == {"none", "before"}

VARIABLES
    store,        \* the pastes table: paste id -> row
    wall,         \* the wall clock, datetime.now(timezone.utc)
    testMode,     \* os.environ.get("TEST_MODE") == "1"
    last,         \* the response sent last
    asked,        \* history: header, reference time and body of the
                  \* request answered last, kept by the one-at-a-time
                  \* handlers
    session,      \* per worker: the request in flight and its ORM session
    okFetches,    \* history: API fetches of each id answered 200
    expiredSeen   \* history: some request saw the id at or past expires_at

vars == <<store, wall, testMode, last, asked, session, okFetches, expiredSeen>>

(* --------------------- models.py: the Paste methods -------------------- *)

\* Mutant: the expiry instant itself is not yet expired.
is_expired_exclusive(paste, current_time) ==
    IF paste.expires_at = None
    THEN FALSE
    ELSE current_time > paste.expires_at[1]

is_expired(paste, current_time) ==
    IF paste.expires_at = None
    THEN FALSE
    ELSE current_time >= paste.expires_at[1]

\* Mutant: a paste without max_views has a limit of zero views.
is_view_limit_reached_unlimited(paste) ==
    paste.current_views >= (IF paste.max_views = None
                            THEN 0 ELSE paste.max_views[1])

\* Mutant: the limit counts as reached one view late.
is_view_limit_reached_late(paste) ==
    IF paste.max_views = None
    THEN FALSE
    ELSE paste.current_views > paste.max_views[1]

is_view_limit_reached(paste) ==
    IF paste.max_views = None
    THEN FALSE
    ELSE paste.current_views >= paste.max_views[1]

\* Mutant: the stored is_active flag is not consulted.
is_available_recomputed(paste, current_time) ==
    IF is_expired(paste, current_time) THEN FALSE
    ELSE IF is_view_limit_reached(paste) THEN FALSE
    ELSE TRUE

is_available(paste, current_time) ==
    IF ~paste.is_active THEN FALSE
    ELSE IF is_expired(paste, current_time) THEN FALSE
    ELSE IF is_view_limit_reached(paste) THEN FALSE
    ELSE TRUE

Max(a, b) == IF a >= b THEN a ELSE b

\* Mutant: the view being served is not counted.
get_remaining_views_stale(paste) ==
    IF paste.max_views = None
    THEN None
    ELSE Some(Max(0, paste.max_views[1] - paste.current_views + 1))

get_remaining_views(paste) ==
    IF paste.max_views = None
    THEN None
    ELSE Some(Max(0, paste.max_views[1] - paste.current_views))

(* ----------------------------- utils.py -------------------------------- *)

\* Mutant: the header is honoured whatever TEST_MODE says.
get_current_time_always(header) ==
    IF header.kind # "absent"
    THEN CASE header.kind = "ms" -> [raised |-> "", time |-> header.ms]
           [] header.kind = "overflow" -> [raised |-> "OverflowError", time |-> wall]
           [] OTHER -> [raised |-> "", time |-> wall]
    ELSE [raised |-> "", time |-> wall]

\* [raised, time]: raised is "" when a datetime is returned, else the
\* exception that leaves the function.
get_current_time(header) ==
    IF testMode /\ header.kind # "absent"
    THEN CASE header.kind = "ms" -> [raised |-> "", time |-> header.ms]
           [] header.kind = "overflow" -> [raised |-> "OverflowError", time |-> wall]
           [] OTHER -> [raised |-> "", time |-> wall]
    ELSE [raised |-> "", time |-> wall]

\* Mutant: ttl_seconds is added as if it were milliseconds.
calculate_expiry_time_unscaled(created_at, ttl_seconds) ==
    created_at + ttl_seconds

calculate_expiry_time(created_at, ttl_seconds) ==
    created_at + ttl_seconds * MsPerSecond

\* isoformat(timespec='milliseconds') of an instant kept in milliseconds.
format_datetime_iso(dt) == [iso_ms |-> dt]

(* ---------------------------- schemas.py ------------------------------- *)

RECURSIVE LStrip(_)
LStrip(s) ==
    IF s = <<>> THEN s
    ELSE IF Head(s) = " " THEN LStrip(Tail(s)) ELSE s

RECURSIVE RStrip(_)
RStrip(s) ==
    IF s = <<>> THEN s
    ELSE IF s[Len(s)] = " " THEN RStrip(SubSeq(s, 1, Len(s) - 1)) ELSE s

Strip(s) == RStrip(LStrip(s))

content_not_empty(v) == ~(v = <<>> \/ Strip(v) = <<>>)
ttl_positive(v) == ~(v # None /\ v[1] < 1)
max_views_positive(v) == ~(v # None /\ v[1] < 1)

PasteCreate(content, ttl_seconds, max_views) ==
    /\ content_not_empty(content)
    /\ ttl_positive(ttl_seconds)
    /\ max_views_positive(max_views)

(* ----------------------------- responses ------------------------------- *)

\* A response, with the endpoint and the id it answers.  error is the
\* message of an error body, detail what the body carries beyond it.
Response(op, id, status, error) ==
    [op |-> op, id |-> id, status |-> status, error |-> error, detail |-> "",
     content |-> None, remaining_views |-> None, expires_at |-> None]

\* The handler registered with @app.exception_handler(422).
validation_exception_handler ==
    Response("create", 0, 400, "Invalid input")

\* The handler that answers an exception of class cls (status_code is that
\* of an HTTPException).  A handler registered under a status code serves
\* HTTPException only; a RequestValidationError goes to the framework's own
\* handler: 422 with the list of errors under "detail".
ExceptionHandler(cls, status_code) ==
    IF cls = "HTTPException" /\ status_code = 422
    THEN validation_exception_handler
    ELSE [Response("create", 0, 422, "") EXCEPT !.detail = "validation errors"]

\* A request body PasteCreate rejects raises RequestValidationError before
\* create_paste is entered.
RequestValidationResponse == ExceptionHandler("RequestValidationError", 422)

\* The except Exception branch of each handler; exc is str(e).
InternalError(op, id, exc) ==
    IF op = "view"
    THEN [Response(op, id, 500, "500 - Internal Server Error")
            EXCEPT !.detail = exc]
    ELSE Response(op, id, 500, "Internal server error")

(* ------------------------ main.py: create_paste ------------------------ *)

NewPaste(content, ttl_seconds, max_views, created_at) ==
    [content |-> content,
     ttl_seconds |-> ttl_seconds,
     max_views |-> max_views,
     current_views |-> 0,
     created_at |-> created_at,
     expires_at |-> IF ttl_seconds # None /\ ttl_seconds[1] # 0
                    THEN Some(calculate_expiry_time(created_at, ttl_seconds[1]))
                    ELSE None,
     is_active |-> TRUE]

\* db.add(new_paste); db.commit()
Insert(rows, id, row) ==
    [i \in DOMAIN rows \cup {id} |-> IF i = id THEN row ELSE rows[i]]

\* [rows, reply]: the table and the response after POST /api/pastes with
\* this body, where generate_paste_id() returned id.  An id already in the
\* table violates the primary key at the commit (IntegrityError).
CreateResult(content, ttl_seconds, max_views, header, id, fail) ==
    LET ct == get_current_time(header)
    IN  IF ~PasteCreate(content, ttl_seconds, max_views)
        THEN [rows |-> store, reply |-> RequestValidationResponse]
        ELSE IF ct.raised # ""
        THEN [rows |-> store, reply |-> InternalError("create", id, ct.raised)]
        ELSE IF fail = "before"
        THEN [rows |-> store,
              reply |-> InternalError("create", id, "OperationalError")]
        ELSE IF id \in DOMAIN store
        THEN [rows |-> store,
              reply |-> InternalError("create", id, "IntegrityError")]
        ELSE [rows |-> Insert(store, id,
                              NewPaste(content, ttl_seconds, max_views, ct.time)),
              reply |-> Response("create", id, 200, "")]

(* ------------------------ main.py: fetch_paste ------------------------- *)

\* Mutant: the view that exhausts the limit leaves is_active as it was.
FetchLocal_unflagged(loaded, current_time) ==
    IF ~is_available(loaded, current_time)
    THEN [loaded EXCEPT !.is_active = FALSE]
    ELSE [loaded EXCEPT !.current_views = @ + 1]

\* Mutant: the view is counted before availability is looked at.
FetchLocal_eager(loaded, current_time) ==
    LET viewed == [loaded EXCEPT !.current_views = @ + 1]
    IN  IF ~is_available(loaded, current_time)
        THEN [viewed EXCEPT !.is_active = FALSE]
        ELSE IF is_view_limit_reached(viewed)
             THEN [viewed EXCEPT !.is_active = FALSE]
             ELSE viewed

\* The session's Paste object after lines 265-289, from the row it loaded.
FetchLocal(loaded, current_time) ==
    IF ~is_available(loaded, current_time)
    THEN [loaded EXCEPT !.is_active = FALSE]
    ELSE LET viewed == [loaded EXCEPT !.current_views = @ + 1]
         IN  IF is_view_limit_reached(viewed)
             THEN [viewed EXCEPT !.is_active = FALSE]
             ELSE viewed

\* db.commit(): the UPDATE sets the columns the session changed.
Flush(row, loaded, local) ==
    [row EXCEPT
        !.current_views = IF local.current_views # loaded.current_views
                          THEN local.current_views ELSE @,
        !.is_active = IF local.is_active # loaded.is_active
                      THEN local.is_active ELSE @]

UnavailableMessage(paste, current_time) ==
    IF is_expired(paste, current_time) THEN "Paste has expired"
    ELSE IF is_view_limit_reached(paste) THEN "View limit exceeded"
    ELSE "Paste not available"

\* The response built from the row as read back after the commit.
FetchReply(id, current_time, available, paste) ==
    IF available
    THEN [Response("fetch", id, 200, "") EXCEPT
            !.content = Some(paste.content),
            !.remaining_views = get_remaining_views(paste),
            !.expires_at = IF paste.expires_at # None
                           THEN Some(format_datetime_iso(paste.expires_at[1]))
                           ELSE None]
    ELSE Response("fetch", id, 404, UnavailableMessage(paste, current_time))

\* [rows, reply]: the table and the response after GET /api/pastes/{id}.
FetchResult(id, header, fail) ==
    LET ct == get_current_time(header)
    IN  IF ct.raised # ""
        THEN [rows |-> store, reply |-> InternalError("fetch", id, ct.raised)]
        ELSE IF fail = "before"
        THEN [rows |-> store,
              reply |-> InternalError("fetch", id, "OperationalError")]
        ELSE IF id \notin DOMAIN store
        THEN [rows |-> store,
              reply |-> Response("fetch", id, 404, "Paste not found")]
        ELSE LET loaded == store[id]
                 rows == [store EXCEPT ![id] =
                              Flush(loaded, loaded, FetchLocal(loaded, ct.time))]
             IN  [rows |-> rows,
                  reply |-> FetchReply(id, ct.time,
                                       is_available(loaded, ct.time), rows[id])]

(* ------------------------- main.py: view_paste ------------------------- *)

\* Mutant: a page view of an available paste counts as a view.
ViewLocal_counting(loaded, current_time) ==
    IF ~is_available(loaded, current_time)
    THEN [loaded EXCEPT !.is_active = FALSE]
    ELSE [loaded EXCEPT !.current_views = @ + 1]

\* The session's Paste object after lines 363-366.
ViewLocal(loaded, current_time) ==
    IF ~is_available(loaded, current_time)
    THEN [loaded EXCEPT !.is_active = FALSE]
    ELSE loaded

PageMessage(paste, current_time) ==
    IF is_expired(paste, current_time) THEN "404 - Paste Has Expired"
    ELSE IF is_view_limit_reached(paste) THEN "404 - View Limit Exceeded"
    ELSE "404 - Paste Not Available"

ViewReply(id, current_time, available, paste) ==
    IF available
    THEN [Response("view", id, 200, "") EXCEPT !.content = Some(paste.content)]
    ELSE Response("view", id, 404, PageMessage(paste, current_time))

\* [rows, reply]: the table and the response after GET /p/{id}.
ViewResult(id, header, fail) ==
    LET ct == get_current_time(header)
    IN  IF ct.raised # ""
        THEN [rows |-> store, reply |-> InternalError("view", id, ct.raised)]
        ELSE IF fail = "before"
        THEN [rows |-> store,
              reply |-> InternalError("view", id, "OperationalError")]
        ELSE IF id \notin DOMAIN store
        THEN [rows |-> store,
              reply |-> Response("view", id, 404, "404 - Paste Not Found")]
        ELSE LET loaded == store[id]
                 rows == [store EXCEPT ![id] =
                              Flush(loaded, loaded, ViewLocal(loaded, ct.time))]
             IN  [rows |-> rows,
                  reply |-> ViewReply(id, ct.time,
                                      is_available(loaded, ct.time), rows[id])]

(* ------------------------------- Init ---------------------------------- *)

NoRow == NewPaste(<<>>, None, None, 0)

\* A worker between requests.
Idle == [pc |-> "idle", id |-> 0, now |-> 0, loaded |-> NoRow]

NoBody == [content |-> <<>>, ttl_seconds |-> None, max_views |-> None]

Asked(header, body) ==
    [header |-> header, now |-> get_current_time(header).time, body |-> body]

Init ==
    /\ store = [i \in {} |-> NoRow]
    /\ wall = 0
    /\ testMode \in BOOLEAN
    /\ last = Response("none", 0, 0, "")
    /\ asked = [header |-> NoHeader, now |-> 0, body |-> NoBody]
    /\ session = [p \in Procs |-> Idle]
    /\ okFetches = [i \in Ids |-> 0]
    /\ expiredSeen = [i \in Ids |-> FALSE]

\* The wall clock advances.
Tick ==
    /\ \E t \in Times : t > wall /\ wall' = t
    /\ UNCHANGED <<store, testMode, last, asked, session, okFetches,
                   expiredSeen>>

\* The bound on the counter of a paste without max_views.
WithinBound(id) ==
    (id \in DOMAIN store /\ store[id].max_views = None)
        => store[id].current_views < MaxViews

(* ----------------- the handlers, one request at a time ----------------- *)

\* POST /api/pastes, with the store failing as fails allows; track says
\* whether the request is logged in asked.  A rejected body never reaches
\* the handler: its header, the id and the store's health play no part.
Create(track, fails) ==
    \E content \in Contents, ttl_seconds \in TtlInputs, max_views \in ViewInputs :
        \E header \in IF PasteCreate(content, ttl_seconds, max_views)
                       THEN Headers ELSE {NoHeader},
           id \in IF PasteCreate(content, ttl_seconds, max_views)
                   THEN Ids ELSE {0},
           fail \in IF PasteCreate(content, ttl_seconds, max_views)
                     THEN fails ELSE {"none"} :
            LET r == CreateResult(content, ttl_seconds, max_views, header, id,
                                  fail)
            IN  /\ store' = r.rows
                /\ last' = r.reply
                /\ asked' = IF track
                            THEN Asked(header,
                                       [content |-> content,
                                        ttl_seconds |-> ttl_seconds,
                                        max_views |-> max_views])
                            ELSE asked
                /\ UNCHANGED <<wall, testMode, session, okFetches,
                               expiredSeen>>

CreatePaste == Create(TRUE, FailPoints)

\* Whether a request answered with reply evaluated the row of id at or past
\* its expires_at.
SawExpired(id, header, reply) ==
    /\ id \in DOMAIN store
    /\ reply.status # 500
    /\ is_expired(store[id], get_current_time(header).time)

FetchPaste ==
    \E id \in Ids, header \in Headers, fail \in FailPoints :
        LET r == FetchResult(id, header, fail)
        IN  /\ WithinBound(id)
            /\ store' = r.rows
            /\ last' = r.reply
            /\ asked' = Asked(header, NoBody)
            /\ okFetches' = IF r.reply.status = 200
                            THEN [okFetches EXCEPT ![id] = @ + 1]
                            ELSE okFetches
            /\ expiredSeen' = IF SawExpired(id, header, r.reply)
                              THEN [expiredSeen EXCEPT ![id] = TRUE]
                              ELSE expiredSeen
            /\ UNCHANGED <<wall, testMode, session>>

ViewPaste ==
    \E id \in Ids, header \in Headers, fail \in FailPoints :
        LET r == ViewResult(id, header, fail)
        IN  /\ store' = r.rows
            /\ last' = r.reply
            /\ asked' = Asked(header, NoBody)
            /\ expiredSeen' = IF SawExpired(id, header, r.reply)
                              THEN [expiredSeen EXCEPT ![id] = TRUE]
                              ELSE expiredSeen
            /\ UNCHANGED <<wall, testMode, session, okFetches>>

Next ==
    \/ Tick
    \/ CreatePaste
    \/ FetchPaste
    \/ ViewPaste

Spec == Init /\ [][Next]_vars

(* ------------- the handlers, several workers on one store -------------- *)

\* Each worker runs one request at a time on its own session.  A request
\* that has loaded its row works on that copy until its commit, and requests
\* of other workers may run in between: nothing in the handlers locks the
\* row (no SELECT ... FOR UPDATE, no conditional UPDATE).  The store is
\* reachable throughout; its failures are followed one request at a time.

Answer(p, reply) ==
    /\ last' = reply
    /\ session' = [session EXCEPT ![p] = Idle]

Load(p, pc, id, now) ==
    /\ session' = [session EXCEPT ![p] =
            [pc |-> pc, id |-> id, now |-> now, loaded |-> store[id]]]
    /\ UNCHANGED last

\* create_paste: one INSERT and its commit, with no row read before it.
CreateOne == Create(FALSE, {"none"})

\* fetch_paste up to the query of line 256.
BeginFetch(p) ==
    /\ session[p].pc = "idle"
    /\ \E id \in Ids, header \in Headers :
        LET ct == get_current_time(header)
        IN  /\ WithinBound(id)
            /\ IF ct.raised # ""
               THEN Answer(p, InternalError("fetch", id, ct.raised))
               ELSE IF id \notin DOMAIN store
               THEN Answer(p, Response("fetch", id, 404, "Paste not found"))
               ELSE Load(p, "fetch", id, ct.time)
    /\ UNCHANGED <<store, wall, testMode, asked, okFetches, expiredSeen>>

\* fetch_paste, lines 265-301: the evaluation of the loaded row, the commit
\* and the response.
CommitFetch(p) ==
    /\ session[p].pc = "fetch"
    /\ LET s == session[p]
           rows == [store EXCEPT ![s.id] =
                        Flush(@, s.loaded, FetchLocal(s.loaded, s.now))]
           available == is_available(s.loaded, s.now)
       IN  /\ store' = rows
           /\ Answer(p, FetchReply(s.id, s.now, available, rows[s.id]))
           /\ okFetches' = IF available
                           THEN [okFetches EXCEPT ![s.id] = @ + 1]
                           ELSE okFetches
           /\ expiredSeen' = IF is_expired(s.loaded, s.now)
                             THEN [expiredSeen EXCEPT ![s.id] = TRUE]
                             ELSE expiredSeen
    /\ UNCHANGED <<wall, testMode, asked>>

\* view_paste up to line 364 and, for an available paste, lines 382-391.
BeginView(p) ==
    /\ session[p].pc = "idle"
    /\ \E id \in Ids, header \in Headers :
        LET ct == get_current_time(header)
        IN  IF ct.raised # ""
            THEN Answer(p, InternalError("view", id, ct.raised))
            ELSE IF id \notin DOMAIN store
            THEN Answer(p, Response("view", id, 404, "404 - Paste Not Found"))
            ELSE IF is_available(store[id], ct.time)
            THEN Answer(p, ViewReply(id, ct.time, TRUE, store[id]))
            ELSE Load(p, "view", id, ct.time)
    /\ UNCHANGED <<store, wall, testMode, asked, okFetches, expiredSeen>>

\* view_paste, lines 365-380: the commit of is_active and the 404 page.
CommitView(p) ==
    /\ session[p].pc = "view"
    /\ LET s == session[p]
           rows == [store EXCEPT ![s.id] =
                        Flush(@, s.loaded, ViewLocal(s.loaded, s.now))]
       IN  /\ store' = rows
           /\ Answer(p, ViewReply(s.id, s.now, FALSE, rows[s.id]))
           /\ expiredSeen' = IF is_expired(s.loaded, s.now)
                             THEN [expiredSeen EXCEPT ![s.id] = TRUE]
                             ELSE expiredSeen
    /\ UNCHANGED <<wall, testMode, asked, okFetches>>

NextConc ==
    \/ Tick
    \/ CreateOne
    \/ \E p \in Procs : BeginFetch(p)
    \/ \E p \in Procs : CommitFetch(p)
    \/ \E p \in Procs : BeginView(p)
    \/ \E p \in Procs : CommitView(p)

SpecConc == Init /\ [][NextConc]_vars

(* ======================================================================= *)
(* Properties                                                              *)
(* ======================================================================= *)

HasLimit(id) == id \in DOMAIN store /\ store[id].max_views # None
Limit(id) == store[id].max_views[1]

\* The headers get_current_time turns into a reference time.
Timed == {h \in Headers : get_current_time(h).raised = ""}

\* C1: for a paste with max_views = N on which no time expiry was reached,
\* fetched one request at a time, a fetch is answered 200 exactly when fewer
\* than N fetches were answered 200 before it, and 404 otherwise: the first
\* N fetches succeed, the (N+1)-th and every later one fail.  The fetch
\* that raises current_views to N is among those that succeed.
C1_FirstNFetchesSucceed ==
    \A id \in Ids :
        (HasLimit(id) /\ ~expiredSeen[id]) =>
            /\ okFetches[id] <= Limit(id)
            /\ (last.op = "fetch" /\ last.id = id /\ last.status = 404)
                  => okFetches[id] = Limit(id)
            /\ \A h \in Timed :
                 LET r == FetchResult(id, h, "none")
                 IN  ~is_expired(store[id], get_current_time(h).time) =>
                        /\ r.reply.status =
                              IF okFetches[id] < Limit(id) THEN 200 ELSE 404
                        /\ r.reply.status = 200 => r.reply.content # None
                        /\ okFetches[id] = Limit(id) - 1
                              => r.rows[id].current_views = Limit(id)

\* The third fetch of a paste with max_views = 2 was answered 404 after
\* exactly two successes, no expiry involved.
C1_Witness ==
    /\ HasLimit(1) /\ Limit(1) = 2
    /\ ~expiredSeen[1]
    /\ okFetches[1] = 2
    /\ last.op = "fetch" /\ last.status = 404

\* C2: under any interleaving of concurrent fetches of a paste with
\* max_views = N, at most N fetches are answered 200.
C2_NoMoreThanNSucceed ==
    \A id \in Ids : HasLimit(id) => okFetches[id] <= Limit(id)

\* C3: for a paste created with ttl_seconds = T that is still active and
\* under its view limit, a fetch at a reference time >= created_at + T is
\* answered 404 and a fetch at a reference time < created_at + T is answered
\* 200 with the content.
C3_ExpiryBoundaryInclusive ==
    \A id \in DOMAIN store :
        LET paste == store[id]
        IN  paste.ttl_seconds # None =>
              /\ (last.op = "fetch" /\ last.id = id /\ last.status = 200)
                    => asked.now < paste.created_at
                                     + paste.ttl_seconds[1] * MsPerSecond
              /\ (paste.is_active /\ ~is_view_limit_reached(paste)) =>
                    \A h \in Timed :
                        LET r == FetchResult(id, h, "none").reply
                        IN  IF get_current_time(h).time >=
                                 paste.created_at
                                     + paste.ttl_seconds[1] * MsPerSecond
                            THEN r.status = 404
                            ELSE /\ r.status = 200
                                 /\ r.content = Some(paste.content)

\* A fetch at exactly created_at + T was answered 404, after an earlier
\* fetch had succeeded, on a paste whose view limit is not reached.
C3_Witness ==
    /\ 1 \in DOMAIN store
    /\ store[1].ttl_seconds = Some(1)
    /\ ~is_view_limit_reached(store[1])
    /\ okFetches[1] >= 1
    /\ last.op = "fetch" /\ last.status = 404
    /\ asked.now = store[1].created_at + MsPerSecond

\* C4: is_active is monotone under any interleaving: a row that is inactive
\* stays inactive; a request answered 404 for a stored paste leaves it
\* inactive; and a request that loaded the row once it was inactive is
\* answered 404 whatever its reference time, so that a 200 is only ever
\* sent for a row that was active when the request loaded it.
C4_Step ==
    /\ \A id \in DOMAIN store :
          /\ id \in DOMAIN store'
          /\ ~store[id].is_active => ~store'[id].is_active
    /\ \A p \in Procs :
          (session[p].pc # "idle" /\ session'[p].pc = "idle") =>
              /\ last'.op = session[p].pc /\ last'.id = session[p].id
              /\ ~session[p].loaded.is_active => last'.status = 404
              /\ last'.status = 404 => ~store'[session[p].id].is_active
    /\ (last' # last /\ last'.op = "view" /\ last'.status = 200)
          => store[last'.id].is_active
    /\ (last' # last /\ last'.op = "fetch" /\ last'.status = 200) =>
          \E p \in Procs :
              /\ session[p].pc = "fetch" /\ session'[p].pc = "idle"
              /\ session[p].loaded.is_active

C4_IsActiveMonotone == [][C4_Step]_vars

\* A fetch was answered 404 and another fetch, in flight, has loaded the
\* inactive row at a reference time earlier than its expires_at.
C4_Witness ==
    /\ last.op = "fetch" /\ last.status = 404
    /\ \E p \in Procs :
          /\ session[p].pc = "fetch"
          /\ ~session[p].loaded.is_active
          /\ session[p].loaded.expires_at # None
          /\ session[p].now < session[p].loaded.expires_at[1]
          /\ ~is_view_limit_reached(session[p].loaded)

\* C5: every API fetch answered 404 carries the same body,
\* {"error": "Paste not found"}, whatever made the paste unavailable.
C5_UniformNotFound ==
    (last.op = "fetch" /\ last.status = 404) => last.error = "Paste not found"

\* C6: the k-th successful fetch of a paste with max_views = N returns
\* remaining_views = N - k, never negative; a successful fetch of a paste
\* without max_views returns remaining_views = null.
C6_RemainingViews ==
    /\ (last.op = "fetch" /\ last.status = 200) =>
          LET paste == store[last.id]
          IN  IF paste.max_views = None
              THEN last.remaining_views = None
              ELSE /\ last.remaining_views
                         = Some(paste.max_views[1] - okFetches[last.id])
                   /\ last.remaining_views[1] >= 0
    /\ \A id \in DOMAIN store, h \in Timed :
          LET r == FetchResult(id, h, "none").reply
          IN  r.status = 200 =>
                r.remaining_views =
                    IF store[id].max_views = None
                    THEN None
                    ELSE Some(store[id].max_views[1] - (okFetches[id] + 1))

\* The second successful fetch of a paste with max_views = 2 returned
\* remaining_views = 0.
C6_Witness ==
    /\ HasLimit(1) /\ Limit(1) = 2
    /\ okFetches[1] = 2
    /\ last.op = "fetch" /\ last.status = 200
    /\ last.remaining_views = Some(0)

\* How many of the next k fetches of paste, all at reference time t, are
\* answered 200.
RECURSIVE Successes(_, _, _)
Successes(paste, t, k) ==
    IF k = 0 THEN 0
    ELSE (IF is_available(paste, t) THEN 1 ELSE 0)
            + Successes(FetchLocal(paste, t), t, k - 1)

\* The page view answered last left current_views of every paste as it was
\* and, for a view-limited paste under its limit, took no successful fetch
\* away at any of the reference times ts.
ViewTakesNothing(ts) ==
    (last'.op = "view") =>
        \A id \in DOMAIN store :
            /\ id \in DOMAIN store'
            /\ store'[id].current_views = store[id].current_views
            /\ (HasLimit(id) /\ ~is_view_limit_reached(store[id])) =>
                  \A t \in ts :
                      Successes(store'[id], t, MaxViews + 1)
                          >= Successes(store[id], t, MaxViews + 1)

\* C7 as stated: a page view never changes current_views, whatever its
\* outcome, and page views of a view-limited paste under its limit do not
\* reduce the number of fetches that still succeed, at any reference time.
C7_Original == [][ViewTakesNothing(Times)]_vars

\* C7 as amended: a page view never changes current_views, whatever its
\* outcome, and page views of a view-limited paste under its limit do not
\* reduce the number of fetches that still succeed at reference times not
\* earlier than the page view's own.
C7_PageViewNotCounted ==
    [][ViewTakesNothing({t \in Times : t >= asked'.now})]_vars

\* A page view of a view-limited paste with one of its two views used was
\* answered 404 (the paste had expired); the counter still reads one.
C7_Witness ==
    /\ HasLimit(1) /\ Limit(1) = 2
    /\ store[1].current_views = 1 /\ okFetches[1] = 1
    /\ last.op = "view" /\ last.status = 404

\* C8: with TEST_MODE off the x-test-now-ms header is ignored: in every
\* reachable state every create, fetch and page view leaves the same table
\* and sends the same response with any header as with none, and the
\* reference time of a request is the wall clock.
C8_HeaderIgnored ==
    ~testMode =>
        /\ asked.now <= wall
        /\ \A h \in Headers :
              /\ get_current_time(h) = [raised |-> "", time |-> wall]
              /\ \A id \in Ids, f \in FailPoints :
                    /\ FetchResult(id, h, f) = FetchResult(id, NoHeader, f)
                    /\ ViewResult(id, h, f) = ViewResult(id, NoHeader, f)
                    /\ \A c \in Contents, t \in TtlInputs, m \in ViewInputs :
                          CreateResult(c, t, m, h, id, f)
                              = CreateResult(c, t, m, NoHeader, id, f)

\* With TEST_MODE off, a fetch that carried the expiry instant of the paste
\* in its header was served at the wall clock, before the expiry: 200.
C8_Witness ==
    /\ ~testMode
    /\ 1 \in DOMAIN store /\ store[1].expires_at = Some(MsPerSecond)
    /\ asked.header = [kind |-> "ms", ms |-> MsPerSecond]
    /\ asked.now = 0
    /\ last.op = "fetch" /\ last.status = 200

\* The bodies C9 is about: content empty or whitespace-only, or ttl_seconds
\* or max_views present and less than 1.
Rejected(content, ttl_seconds, max_views) ==
    \/ content = <<>>
    \/ \A i \in 1 .. Len(content) : content[i] = " "
    \/ ttl_seconds # None /\ ttl_seconds[1] < 1
    \/ max_views # None /\ max_views[1] < 1

\* C9: a creation request with such a body is answered 400 with an error
\* body and inserts nothing.
C9_RejectedWith400 ==
    [][(/\ last'.op = "create"
        /\ Rejected(asked'.body.content, asked'.body.ttl_seconds,
                    asked'.body.max_views))
          => (/\ last'.status = 400
              /\ last'.error # ""
              /\ store' = store)]_vars

\* C10: a response with status 500 carries the generic message alone,
\* nothing of the exception that caused it.
C10_GenericInternalError ==
    last.status = 500 =>
        /\ last.detail = ""
        /\ last.error \in {"Internal server error",
                           "500 - Internal Server Error"}

\* A paste created with neither ttl_seconds nor max_views.
Plain(id) ==
    /\ id \in DOMAIN store
    /\ store[id].ttl_seconds = None
    /\ store[id].max_views = None

\* C11: a paste created with neither ttl_seconds nor max_views is never
\* deactivated: after any sequence of fetches and page views its is_active
\* is true and it has no expires_at; every fetch of it that was answered
\* from the store was answered 200, and a fetch at any reference time is
\* answered 200 with remaining_views = null and expires_at = null and
\* leaves it active, as does a page view.
C11_PlainNeverDeactivated ==
    \A id \in Ids :
        Plain(id) =>
            /\ store[id].is_active
            /\ store[id].expires_at = None
            /\ (last.op = "fetch" /\ last.id = id /\ last.status # 500)
                  => /\ last.status = 200
                     /\ last.remaining_views = None
                     /\ last.expires_at = None
            /\ \A h \in Timed :
                  LET f == FetchResult(id, h, "none")
                      v == ViewResult(id, h, "none")
                  IN  /\ f.reply.status = 200
                      /\ f.reply.content = Some(store[id].content)
                      /\ f.reply.remaining_views = None
                      /\ f.reply.expires_at = None
                      /\ f.rows[id].is_active
                      /\ v.reply.status = 200
                      /\ v.rows[id].is_active

\* A paste with neither option, created at the epoch, was fetched for the
\* second time one second later: 200, nothing remaining to count.
C11_Witness ==
    /\ Plain(1)
    /\ store[1].created_at = 0
    /\ okFetches[1] = 2
    /\ asked.now = MsPerSecond
    /\ last.op = "fetch" /\ last.status = 200
    /\ last.remaining_views = None /\ last.expires_at = None

\* C12: in every stored state, whatever the interleaving of concurrent
\* fetches, a paste with max_views has current_views <= max_views; a fetch
\* in flight that loaded the row at its limit, and a fetch of a row at its
\* limit, leave the counter as it is.
C12_ViewsWithinLimit ==
    \A id \in Ids :
        HasLimit(id) =>
            /\ store[id].current_views <= Limit(id)
            /\ \A p \in Procs :
                  (/\ session[p].pc = "fetch"
                   /\ session[p].id = id
                   /\ is_view_limit_reached(session[p].loaded))
                      => FetchLocal(session[p].loaded, session[p].now).current_views
                            = session[p].loaded.current_views
            /\ is_view_limit_reached(store[id]) =>
                  \A h \in Timed :
                      FetchResult(id, h, "none").rows[id].current_views
                          = store[id].current_views

\* Two concurrent fetches of a paste with max_views = 1 were both answered
\* 200; the stored counter reads 1.
C12_Witness ==
    /\ HasLimit(1) /\ Limit(1) = 1
    /\ okFetches[1] = 2
    /\ store[1].current_views = 1
    /\ \A p \in Procs : session[p].pc = "idle"

\* C13: under any interleaving the stored current_views of a paste equals
\* the number of fetches of it that were answered 200.
C13_ViewsCountSuccesses ==
    \A id \in DOMAIN store : store[id].current_views = okFetches[id]

\* The part of C13 about direction: no step lowers a stored current_views.
C13_ViewsNeverDecrease ==
    [][\A id \in DOMAIN store :
          store'[id].current_views >= store[id].current_views]_vars

\* The columns of a row that no request writes after the insert.
Fixed(row) ==
    <<row.content, row.ttl_seconds, row.max_views, row.created_at,
      row.expires_at>>

\* C14: a creation answered 200 adds exactly one row, under the id it
\* returns, with current_views = 0, is_active = true, created_at the
\* reference time of the request, content the submitted content, max_views
\* as submitted and expires_at = created_at + ttl_seconds when ttl_seconds
\* was given, none otherwise; and no step removes a row or changes its
\* content, max_views, created_at or expires_at or the id it is stored
\* under.
C14_Step ==
    /\ (last' # last /\ last'.op = "create" /\ last'.status = 200) =>
          LET id == last'.id
              body == asked'.body
          IN  /\ id \notin DOMAIN store
              /\ DOMAIN store' = DOMAIN store \cup {id}
              /\ store'[id].current_views = 0
              /\ store'[id].is_active
              /\ store'[id].created_at = asked'.now
              /\ store'[id].content = body.content
              /\ store'[id].max_views = body.max_views
              /\ store'[id].expires_at =
                    IF body.ttl_seconds # None
                    THEN Some(asked'.now + body.ttl_seconds[1] * MsPerSecond)
                    ELSE None
    /\ ~(last' # last /\ last'.op = "create" /\ last'.status = 200)
          => DOMAIN store' = DOMAIN store
    /\ \A id \in DOMAIN store :
          /\ id \in DOMAIN store'
          /\ Fixed(store'[id]) = Fixed(store[id])

C14_CreateInsertsOneRecord == [][C14_Step]_vars

\* A paste created with ttl_seconds = 1 at reference time one second has
\* expires_at at two seconds, and still has after a fetch and a page view
\* changed its counter and its flag.
C14_Witness ==
    /\ 1 \in DOMAIN store
    /\ store[1].created_at = MsPerSecond
    /\ store[1].expires_at = Some(2 * MsPerSecond)
    /\ store[1].current_views = 1
    /\ ~store[1].is_active
    /\ last.op = "view" /\ last.status = 404

\* The headers C15 is about: absent, or not convertible to a timestamp.
Malformed == {h \in Headers : h.kind \in {"absent", "text", "overflow"}}

\* C15: with TEST_MODE on, a request whose x-test-now-ms header is absent
\* or malformed gets the wall clock as its reference time, and every create,
\* fetch and page view with such a header leaves the same table and sends
\* the same response as the request without the header: a malformed header
\* fails no request.
C15_MalformedFallsBack ==
    testMode =>
        \A h \in Malformed :
            /\ get_current_time(h) = [raised |-> "", time |-> wall]
            /\ \A id \in Ids :
                  /\ FetchResult(id, h, "none") = FetchResult(id, NoHeader, "none")
                  /\ ViewResult(id, h, "none") = ViewResult(id, NoHeader, "none")
                  /\ \A c \in Contents, t \in TtlInputs, m \in ViewInputs :
                        CreateResult(c, t, m, h, id, "none")
                            = CreateResult(c, t, m, NoHeader, id, "none")

\* What holds of C15: a header that is absent, or whose conversion raises
\* ValueError, falls back to the wall clock.
C15_TextFallsBack ==
    testMode =>
        \A h \in {x \in Malformed : x.kind # "overflow"} :
            /\ get_current_time(h) = [raised |-> "", time |-> wall]
            /\ \A id \in Ids :
                  /\ FetchResult(id, h, "none") = FetchResult(id, NoHeader, "none")
                  /\ ViewResult(id, h, "none") = ViewResult(id, NoHeader, "none")

\* C16: in every stored state, whatever the interleaving of creates,
\* fetches and page views, a paste with max_views whose current_views has
\* reached max_views has is_active = false: the commit that writes the
\* exhausting count writes the flag with it.
C16_ExhaustedIsInactive ==
    /\ \A id \in DOMAIN store :
          is_view_limit_reached(store[id]) => ~store[id].is_active
    /\ \A p \in Procs :
          session[p].pc = "fetch" =>
              LET local == FetchLocal(session[p].loaded, session[p].now)
              IN  is_view_limit_reached(local) => ~local.is_active

\* The fetch that exhausted a paste with max_views = 2 has committed while
\* another fetch, in flight, still holds a copy of the row that is active
\* and under its limit.
C16_Witness ==
    /\ HasLimit(1) /\ Limit(1) = 2
    /\ store[1].current_views = 2
    /\ ~store[1].is_active
    /\ last.op = "fetch" /\ last.status = 200
    /\ \E p \in Procs :
          /\ session[p].pc = "fetch"
          /\ session[p].loaded.is_active
          /\ ~is_view_limit_reached(session[p].loaded)

====
